---- MODULE Spec2Model ----
(***************************************************************************)
(* Campus billboard backend.                                               *)
(*                                                                         *)
(* billboard_logic.py (class BillboardManager) is the storage layer: one   *)
(* public method per operation, each method opening its own connection,    *)
(* executing its SQL and committing before it returns.  The module loads,  *)
(* and its methods are the operations of this model: one call, by whoever  *)
(* imports the module, is one action, and the result of the call (the      *)
(* value returned or the exception raised) is part of the state.           *)
(*                                                                         *)
(* billboard_server.py wraps these methods into HTTP handlers.  Importing  *)
(* or running it executes its module body: line 44 constructs the          *)
(* BillboardManager, and line 197 raises NameError, because the annotation *)
(* MessageCreate of the second /send-message handler is defined nowhere.   *)
(* The process exits before uvicorn.run (line 314) is reached: no handler  *)
(* of the file ever runs, and a request sent to the service is refused.    *)
(*                                                                         *)
(* The store backend is picked by the presence of DATABASE_URL (PostgreSQL *)
(* when set, SQLite otherwise); the two backends execute different SQL     *)
(* text and give `SERIAL PRIMARY KEY` different meanings, so the backend   *)
(* is part of the state.  On SQLite a method that raises after an INSERT   *)
(* of its transaction was executed leaves its connection open with the     *)
(* write lock, which later writes find until the connection is finalised.  *)
(***************************************************************************)
EXTENDS Integers, Sequences, FiniteSets

VARIABLES
  database_url,         \* TRUE: DATABASE_URL set (PostgreSQL); FALSE: SQLite
  users,                \* table users, in insertion (rowid) order
  posts,                \* table posts
  channels,             \* table channels
  channel_memberships,  \* table channel_memberships: set of <<user_id, channel_id>>
  messages,             \* table messages
  payments,             \* table payments, pid = position of the row
  dev_applications,     \* table dev_applications
  reports,              \* table reports
  schema,               \* the tables created by their first writer that exist
  in_flight,            \* SQLite: calls between CREATE TABLE and INSERT
  id_seq,               \* PostgreSQL sequences users_id_seq, channels_id_seq
  write_lock,           \* SQLite: a connection left open holds the write lock
  server,               \* the process running billboard_server.py
  requests,             \* the last request each client sent to the service
  result                \* the result of the last BillboardManager call

vars == <<database_url, schema, in_flight, users, posts, channels,
          channel_memberships, messages,
          payments, dev_applications, reports, id_seq, write_lock, server,
          requests, result>>

tables == <<users, posts, channels, channel_memberships, messages,
            payments, dev_applications, reports>>

----------------------------------------------------------------------------
(* Bounds of the model *)

MaxUsers == 2
\* rows of a table outside the content scenario
MaxPosts == 1
MaxChannels == 1
MaxPayments == 1
MaxApps == 1
MaxMessages == 1
MaxReports == 1
\* rows in the store
MaxRows == 2
\* the content scenario: posts, rows in the store
ContentPosts == 2
ContentRows == 3
\* rows in the store in the channel, posting and client scenarios
ChannelRows == 3
PostRows == 3
ClientRows == 2
MaxLimit == 1
\* inserts rolled back after they drew a value from a sequence
MaxFailed == 1
\* clients sending requests to the service
MaxClients == 2
\* calls that have created their table and not yet inserted their row
MaxInFlight == 1

(* SQL NULL / Python None: a value no caller passes as an id.  Real ids    *)
(* start at 1; a caller may pass 0.                                        *)
NULL == 0 - 1

Usernames == {"alice", "bob"}
Emails == {"a@x.com", "b@x.com"}
\* create_user draws the code with random.randint(1000000, 9999999)
Codes == {"1000000", "9999999"}

UserIds == 1..MaxUsers
PostIds == 1..ContentPosts
ChannelIds == 1..MaxChannels
PaymentIds == 1..MaxPayments
AppIds == 1..MaxApps
PostTypes == {"wall", "news", "channel"}
Limits == (-1)..MaxLimit
AfterIds == 0..(ContentPosts - 1)
(* item_id strings, as character sequences so that `in` is a real substring test *)
Gold_Badge == <<"G","o","l","d","_","B","a","d","g","e">>
Verified_Gold == <<"V","e","r","i","f","i","e","d","_","G","o","l","d">>
Theme_Pack == <<"T","h","e","m","e","_","P","a","c","k">>
Dev_Kit == <<"D","e","v","_","K","i","t">>
ItemIds == {Gold_Badge, Verified_Gold, Theme_Pack, Dev_Kit}

\* test codes a client may send to /simulated-payment/confirm: the expected
\* one ("0000") and another
TestCodes == {"0000", "1234"}

\* bio of a user row that was never updated (SQL NULL), and the bios a
\* caller of update_user_profile passes: None and a text
NoBio == "NULL"
Bios == {NoBio, "hello"}

Clients == 1..MaxClients

----------------------------------------------------------------------------
(* Storage helpers *)

\* value of a `SERIAL PRIMARY KEY` column for the n-th inserted row:
\* a sequence value on PostgreSQL; on SQLite SERIAL is not INTEGER, the
\* column is no rowid alias and an INSERT that omits it stores NULL
serial(n) == IF database_url THEN n ELSE NULL

\* cur.fetchone()[0] (PostgreSQL RETURNING id) / cur.lastrowid (SQLite)
lastrowid(n) == n

\* id the next INSERT into table t draws: the next value of the sequence on
\* PostgreSQL, max(rowid) + 1 on SQLite
next_id(t, name) == IF database_url THEN id_seq[name] + 1 ELSE Len(t) + 1

\* the sequences after an INSERT drew a value; a rollback does not give the
\* value back
nextval(name) ==
  IF database_url THEN [id_seq EXCEPT ![name] = @ + 1] ELSE id_seq

\* SQL `col = value`: never true of a NULL column
sql_eq(col, value) == col # NULL /\ value # NULL /\ col = value

\* index of the first row of table t whose id column equals id, 0 if none
row_by_id(t, id) ==
  LET S == {i \in DOMAIN t : sql_eq(t[i].id, id)}
  IN IF S = {} THEN 0 ELSE CHOOSE i \in S : \A j \in S : i <= j

(* The result of a call of a BillboardManager method: the value it returns *)
(* (True, False, an id, a list of rows) or the exception that leaves it.   *)
Returns(call, value) ==
  [call |-> call, raised |-> FALSE, value |-> value, id |-> NULL,
   rows |-> <<>>]
ReturnsId(call, id) ==
  [call |-> call, raised |-> FALSE, value |-> "id", id |-> id, rows |-> <<>>]
ReturnsRows(call, rows) ==
  [call |-> call, raised |-> FALSE, value |-> "rows", id |-> NULL,
   rows |-> rows]
Raises(call, exception) ==
  [call |-> call, raised |-> TRUE, value |-> exception, id |-> NULL,
   rows |-> <<>>]

(* SQLite allows one writer.  A BillboardManager method that raises after *)
(* an INSERT of its transaction was executed leaves its connection open,   *)
(* neither committed nor rolled back, and the connection keeps the write   *)
(* lock until the garbage collector finalises it; meanwhile the reads of   *)
(* other connections succeed and their writes raise OperationalError       *)
(* (database is locked) after the timeout.                                 *)
locked == ~database_url /\ write_lock

\* a write statement of the call finds the database locked
database_is_locked(call) ==
  /\ result' = Raises(call, "OperationalError")
  /\ UNCHANGED <<database_url, schema, in_flight,
                 write_lock, id_seq, server, requests, tables>>

\* the garbage collector finalises the connection left open: its
\* transaction is rolled back and the lock released
finalise ==
  /\ write_lock
  /\ write_lock' = FALSE
  /\ UNCHANGED <<database_url, schema, in_flight,
                 id_seq, server, requests, tables, result>>

\* the exception of a statement on a table that was never created
no_such_table == IF database_url THEN "ProgrammingError" ELSE "OperationalError"

(* The tables payments, dev_applications and reports are created by their  *)
(* writers: CREATE TABLE IF NOT EXISTS, then the INSERT.  On PostgreSQL    *)
(* both statements are one transaction.  On SQLite the CREATE TABLE is     *)
(* committed when it is executed, before the INSERT opens a transaction:   *)
(* between the two statements the table exists without the row, the write  *)
(* lock is free, and other callers run.                                    *)
table_exists(name) == name \in schema

\* a call of a writer of such a table, with its arguments
Call(call, user_id, item_id, post_id) ==
  [call |-> call, user_id |-> user_id, item_id |-> item_id,
   post_id |-> post_id]

\* the calls in flight without the k-th
returned(k) ==
  [i \in 1..(Len(in_flight) - 1) |->
     IF i < k THEN in_flight[i] ELSE in_flight[i + 1]]

\* SQLite: the call executes CREATE TABLE IF NOT EXISTS, which writes, and
\* needs the write lock, only when the table is missing
create_table_if_not_exists(name, call) ==
  IF ~table_exists(name) /\ locked THEN database_is_locked(call.call)
  ELSE /\ schema' = schema \cup {name}
       /\ in_flight' = Append(in_flight, call)
       /\ UNCHANGED <<database_url, write_lock, id_seq, server, requests,
                      tables, result>>

\* SQLite: the INSERT of the call in flight at position k finds the
\* database locked; the call raises and its table stays
insert_is_locked(k) ==
  /\ result' = Raises(in_flight[k].call, "OperationalError")
  /\ in_flight' = returned(k)
  /\ UNCHANGED <<database_url, schema, write_lock, id_seq, server, requests,
                 tables>>

----------------------------------------------------------------------------
(* Identity store *)

\* position of the row SELECT * FROM users WHERE username = ? returns, 0 if
\* none
get_user_by_username(username) ==
  LET S == {i \in DOMAIN users : users[i].username = username}
  IN IF S = {} THEN 0 ELSE CHOOSE i \in S : \A j \in S : i <= j

get_user_by_email(email) ==
  LET S == {i \in DOMAIN users : users[i].email = email}
  IN IF S = {} THEN 0 ELSE CHOOSE i \in S : \A j \in S : i <= j

get_user_by_id(user_id) == row_by_id(users, user_id)

\* the users after INSERT INTO users (username, ..., verification_code)
insert_user(username, email, code) ==
  Append(users, [id |-> serial(next_id(users, "users")),
                 username |-> username,
                 email |-> email,
                 verification_code |-> code,
                 is_email_verified |-> 0,
                 badge_type |-> "none",
                 is_muted |-> 0,
                 bio |-> NoBio])

(* The INSERT raises IntegrityError when it violates `username TEXT       *)
(* UNIQUE` or `email TEXT UNIQUE`: the exception leaves the method before  *)
(* commit and close, and the connection stays open.                        *)
create_user(username, email, code) ==
  IF locked THEN database_is_locked("create_user")
  ELSE IF get_user_by_username(username) # 0 \/ get_user_by_email(email) # 0
  THEN /\ id_seq' = nextval("users")
       /\ write_lock' = ~database_url
       /\ result' = Raises("create_user", "IntegrityError")
       /\ UNCHANGED <<database_url, schema, in_flight,
                      server, requests, tables>>
  ELSE /\ users' = insert_user(username, email, code)
       /\ id_seq' = nextval("users")
       /\ result' = ReturnsId("create_user",
                              lastrowid(next_id(users, "users")))
       /\ UNCHANGED <<database_url, schema, in_flight,
                      write_lock, server, requests, posts,
                      channels, channel_memberships, messages, payments,
                      dev_applications, reports>>

\* the SELECT without the condition on email
verify_email_match_any_email(email, code) ==
  LET S == {i \in DOMAIN users : users[i].verification_code = code}
  IN IF S = {} THEN 0 ELSE CHOOSE i \in S : \A j \in S : i <= j

\* SELECT id FROM users WHERE email = ? AND verification_code = ?
verify_email_match(email, code) ==
  LET S == {i \in DOMAIN users : users[i].email = email
                                 /\ users[i].verification_code = code}
  IN IF S = {} THEN 0 ELSE CHOOSE i \in S : \A j \in S : i <= j

\* an UPDATE that flips is_email_verified instead of setting it
set_is_email_verified_toggle(email, code) ==
  LET r == verify_email_match(email, code)
  IN IF r = 0 THEN users
     ELSE [i \in DOMAIN users |->
             IF sql_eq(users[i].id, users[r].id)
             THEN [users[i] EXCEPT !.is_email_verified = 1 - @]
             ELSE users[i]]

\* UPDATE users SET is_email_verified = 1 WHERE id = res[0]
set_is_email_verified(email, code) ==
  LET r == verify_email_match(email, code)
  IN IF r = 0 THEN users
     ELSE [i \in DOMAIN users |->
             IF sql_eq(users[i].id, users[r].id)
             THEN [users[i] EXCEPT !.is_email_verified = 1]
             ELSE users[i]]

verify_email(email, code) ==
  IF verify_email_match(email, code) # 0 /\ locked
  THEN database_is_locked("verify_email")
  ELSE IF verify_email_match(email, code) # 0
  THEN /\ users' = set_is_email_verified(email, code)
       /\ result' = Returns("verify_email", "True")
       /\ UNCHANGED <<database_url, schema, in_flight,
                      write_lock, id_seq, server, requests,
                      posts, channels, channel_memberships,
                      messages, payments, dev_applications, reports>>
  ELSE /\ result' = Returns("verify_email", "False")
       /\ UNCHANGED <<database_url, schema, in_flight,
                      write_lock, id_seq, server, requests,
                      tables>>

\* `if bio:` UPDATE users SET bio = ? WHERE id = ?; avatar_url is not passed
update_user_profile(user_id, bio) ==
  IF bio # NoBio /\ locked THEN database_is_locked("update_user_profile")
  ELSE /\ users' = [i \in DOMAIN users |->
                      IF bio # NoBio /\ sql_eq(users[i].id, user_id)
                      THEN [users[i] EXCEPT !.bio = bio]
                      ELSE users[i]]
       /\ result' = Returns("update_user_profile", "True")
       /\ UNCHANGED <<database_url, schema, in_flight,
                      write_lock, id_seq, server, requests,
                      posts, channels, channel_memberships,
                      messages, payments, dev_applications, reports>>

\* UPDATE users SET is_muted = 1 WHERE username = %s
set_is_muted(username) ==
  [i \in DOMAIN users |->
     IF users[i].username = username
     THEN [users[i] EXCEPT !.is_muted = 1]
     ELSE users[i]]

\* the SQLite text, "SET is_muted = ? WHERE username = ?", is executed with
\* one parameter: sqlite3.ProgrammingError before the statement runs,
\* nothing is written
mute_user(username) ==
  IF database_url
  THEN /\ users' = set_is_muted(username)
       /\ result' = Returns("mute_user", "True")
       /\ UNCHANGED <<database_url, schema, in_flight,
                      write_lock, id_seq, server, requests,
                      posts, channels, channel_memberships,
                      messages, payments, dev_applications, reports>>
  ELSE /\ result' = Raises("mute_user", "ProgrammingError")
       /\ UNCHANGED <<database_url, schema, in_flight,
                      write_lock, id_seq, server, requests,
                      tables>>

----------------------------------------------------------------------------
(* Content store *)

\* media_url of a post without media (SQL NULL) and of one with an upload
NoMedia == "NULL"
Upload == "uploads/file"
MediaUrls == {NoMedia, Upload}

\* created_at DEFAULT CURRENT_TIMESTAMP: the clock does not go back, and
\* two rows inserted within one tick of it get the same value
CURRENT_TIMESTAMP ==
  IF posts = <<>> THEN {1}
  ELSE {posts[Len(posts)].created_at, posts[Len(posts)].created_at + 1}

\* the posts after INSERT INTO posts (user_id, ..., media_url, media_type)
insert_post(user_id, post_type, channel_id, media_url, created_at) ==
  Append(posts, [id |-> serial(Len(posts) + 1),
                 user_id |-> user_id,
                 post_type |-> post_type,
                 channel_id |-> channel_id,
                 media_url |-> media_url,
                 is_deleted |-> 0,
                 created_at |-> created_at])

\* the method checks nothing: it stores the row it is given
create_post(user_id, post_type, channel_id, media_url) ==
  IF locked THEN database_is_locked("create_post")
  ELSE /\ \E created_at \in CURRENT_TIMESTAMP :
            posts' = insert_post(user_id, post_type, channel_id, media_url,
                                 created_at)
       /\ result' = ReturnsId("create_post", lastrowid(Len(posts) + 1))
       /\ UNCHANGED <<database_url, schema, in_flight,
                      write_lock, id_seq, server, requests,
                      users, channels, channel_memberships, messages,
                      payments, dev_applications, reports>>

\* the row a feed query returns: p.* joined with the author's columns
feed_row(p) ==
  LET u == users[get_user_by_id(p.user_id)]
  IN [id |-> p.id, user_id |-> p.user_id, post_type |-> p.post_type,
      channel_id |-> p.channel_id, media_url |-> p.media_url,
      is_deleted |-> p.is_deleted, created_at |-> p.created_at,
      username |-> u.username, badge_type |-> u.badge_type]

\* ORDER BY created_at DESC over the rows with positions in S: every order
\* the query may return, rows with equal created_at coming in any order
RECURSIVE order_by_created_at_desc(_)
order_by_created_at_desc(S) ==
  IF S = {} THEN {<<>>}
  ELSE UNION {{<<feed_row(posts[i])>> \o r :
                 r \in order_by_created_at_desc(S \ {i})} :
              i \in {k \in S : \A j \in S :
                               posts[k].created_at >= posts[j].created_at}}

\* LIMIT n: a negative n means no limit on SQLite (PostgreSQL rejects it)
sql_limit(rows, n) ==
  IF n < 0 \/ n >= Len(rows) THEN rows ELSE SubSeq(rows, 1, n)

\* the WHERE clause without the is_deleted condition
feed_where_with_deleted(p, after_id) ==
  /\ p.post_type # "news"
  /\ p.channel_id = NULL
  /\ p.id # NULL /\ p.id > after_id
  /\ get_user_by_id(p.user_id) # 0

\* WHERE clause of get_feed, with the JOIN on users
feed_where(p, after_id) ==
  /\ p.is_deleted = 0
  /\ p.post_type # "news"
  /\ p.channel_id = NULL
  /\ p.id # NULL /\ p.id > after_id
  /\ get_user_by_id(p.user_id) # 0

\* WHERE clause of get_news, with the JOIN on users
news_where(p, after_id) ==
  /\ p.is_deleted = 0
  /\ p.post_type = "news"
  /\ p.id # NULL /\ p.id > after_id
  /\ get_user_by_id(p.user_id) # 0

\* the lists of rows the SELECT of get_feed may return
feed_rows(limit, after_id) ==
  {sql_limit(r, limit) :
     r \in order_by_created_at_desc(
             {i \in DOMAIN posts : feed_where(posts[i], after_id)})}

\* the lists of rows the SELECT of get_news may return
news_rows(limit, after_id) ==
  {sql_limit(r, limit) :
     r \in order_by_created_at_desc(
             {i \in DOMAIN posts : news_where(posts[i], after_id)})}

get_feed(limit, after_id) ==
  /\ IF database_url /\ limit < 0
     THEN result' = Raises("get_feed", "DataError")
     ELSE \E rows \in feed_rows(limit, after_id) :
            result' = ReturnsRows("get_feed", rows)
  /\ UNCHANGED <<database_url, schema, in_flight,
                 write_lock, id_seq, server, requests, tables>>

get_news(limit, after_id) ==
  /\ IF database_url /\ limit < 0
     THEN result' = Raises("get_news", "DataError")
     ELSE \E rows \in news_rows(limit, after_id) :
            result' = ReturnsRows("get_news", rows)
  /\ UNCHANGED <<database_url, schema, in_flight,
                 write_lock, id_seq, server, requests, tables>>

\* a DELETE of the row instead of the UPDATE
set_is_deleted_hard(post_id) ==
  SelectSeq(posts, LAMBDA p : ~sql_eq(p.id, post_id))

\* UPDATE posts SET is_deleted = 1 WHERE id = ?
set_is_deleted(post_id) ==
  [i \in DOMAIN posts |->
     IF sql_eq(posts[i].id, post_id)
     THEN [posts[i] EXCEPT !.is_deleted = 1]
     ELSE posts[i]]

delete_post(post_id) ==
  IF locked THEN database_is_locked("delete_post")
  ELSE /\ posts' = set_is_deleted(post_id)
       /\ result' = Returns("delete_post", "True")
       /\ UNCHANGED <<database_url, schema, in_flight,
                      write_lock, id_seq, server, requests,
                      users, channels, channel_memberships,
                      messages, payments, dev_applications, reports>>

\* INSERT INTO reports (post_id, user_id)
insert_report(post_id, user_id) ==
  Append(reports, [post_id |-> post_id, user_id |-> user_id])

report_post(post_id, user_id) ==
  LET call == Call("report_post", user_id, <<>>, post_id)
  IN IF database_url
     THEN /\ schema' = schema \cup {"reports"}
          /\ reports' = insert_report(post_id, user_id)
          /\ result' = Returns("report_post", "True")
          /\ UNCHANGED <<database_url, in_flight, write_lock, id_seq, server,
                         requests, users, posts, channels,
                         channel_memberships, messages, payments,
                         dev_applications>>
     ELSE \/ create_table_if_not_exists("reports", call)
          \/ \E k \in DOMAIN in_flight :
               /\ in_flight[k] = call
               /\ IF locked THEN insert_is_locked(k)
                  ELSE /\ reports' = insert_report(post_id, user_id)
                       /\ in_flight' = returned(k)
                       /\ result' = Returns("report_post", "True")
                       /\ UNCHANGED <<database_url, schema, write_lock,
                                      id_seq, server, requests, users, posts,
                                      channels, channel_memberships, messages,
                                      payments, dev_applications>>

----------------------------------------------------------------------------
(* Channels and messages *)

(* Both INSERTs run in one transaction; the membership INSERT violates     *)
(* PRIMARY KEY(user_id, channel_id) when the row exists: the exception     *)
(* leaves the method before the commit, the channel row is never committed *)
(* and the connection stays open.                                          *)
create_channel(owner_id) ==
  LET channel_id == lastrowid(next_id(channels, "channels"))
  IN IF locked THEN database_is_locked("create_channel")
     ELSE IF <<owner_id, channel_id>> \in channel_memberships
     THEN /\ id_seq' = nextval("channels")
          /\ write_lock' = ~database_url
          /\ result' = Raises("create_channel", "IntegrityError")
          /\ UNCHANGED <<database_url, schema, in_flight,
                         server, requests, tables>>
     ELSE /\ channels' = Append(channels,
                                [id |-> serial(next_id(channels, "channels")),
                                 owner_id |-> owner_id])
          /\ channel_memberships' = channel_memberships
                                    \cup {<<owner_id, channel_id>>}
          /\ id_seq' = nextval("channels")
          /\ result' = ReturnsId("create_channel", channel_id)
          /\ UNCHANGED <<database_url, schema, in_flight,
                         write_lock, server, requests, users,
                         posts, messages, payments, dev_applications,
                         reports>>

\* SELECT user_id FROM channel_memberships WHERE user_id = ? AND
\* channel_id = ?
member(user_id, channel_id) == <<user_id, channel_id>> \in channel_memberships

is_channel_member(user_id, channel_id) ==
  /\ result' = Returns("is_channel_member",
                       IF member(user_id, channel_id) THEN "True"
                       ELSE "False")
  /\ UNCHANGED <<database_url, schema, in_flight,
                 write_lock, id_seq, server, requests, tables>>

\* the method swallows every exception of its INSERT
add_channel_member(channel_id, user_id) ==
  /\ channel_memberships' =
       IF locked THEN channel_memberships
       ELSE channel_memberships \cup {<<user_id, channel_id>>}
  /\ result' = Returns("add_channel_member", "True")
  /\ UNCHANGED <<database_url, schema, in_flight,
                 write_lock, id_seq, server, requests,
                 users, posts, channels, messages, payments,
                 dev_applications, reports>>

send_message(sender_id, receiver_id) ==
  IF locked THEN database_is_locked("send_message")
  ELSE /\ messages' = Append(messages, [sender_id |-> sender_id,
                                        receiver_id |-> receiver_id])
       /\ result' = Returns("send_message", "True")
       /\ UNCHANGED <<database_url, schema, in_flight,
                      write_lock, id_seq, server, requests,
                      users, posts, channels, channel_memberships,
                      payments, dev_applications, reports>>

----------------------------------------------------------------------------
(* Payments *)

RECURSIVE contains_at(_, _, _)
\* sub occurs in s at position i or later
contains_at(s, sub, i) ==
  IF i + Len(sub) - 1 > Len(s) THEN FALSE
  ELSE IF SubSeq(s, i, i + Len(sub) - 1) = sub THEN TRUE
  ELSE contains_at(s, sub, i + 1)

\* Python `sub in s`
contains(s, sub) == contains_at(s, sub, 1)

Verified == <<"V","e","r","i","f","i","e","d">>
Gold == <<"G","o","l","d">>
Dev == <<"D","e","v">>

\* the badge upgrade_user_badge derives from item_id
badge_for(item_id) ==
  IF contains(item_id, Verified) THEN "verified"
  ELSE IF contains(item_id, Gold) THEN "gold"
  ELSE IF contains(item_id, Dev) THEN "dev"
  ELSE "none"

\* UPDATE users SET badge_type = ? WHERE id = ?
set_badge(user_id, badge) ==
  [i \in DOMAIN users |->
     IF sql_eq(users[i].id, user_id)
     THEN [users[i] EXCEPT !.badge_type = badge]
     ELSE users[i]]

\* INSERT INTO payments (id, user_id, item_id, amount); pid =
\* secrets.token_hex(8): the row is named by its position
insert_payment(user_id, item_id) ==
  Append(payments,
         [user_id |-> user_id, item_id |-> item_id, status |-> "pending"])

initiate_simulated_payment(user_id, item_id) ==
  LET call == Call("initiate_simulated_payment", user_id, item_id, NULL)
  IN IF database_url
     THEN /\ schema' = schema \cup {"payments"}
          /\ payments' = insert_payment(user_id, item_id)
          /\ result' = ReturnsId("initiate_simulated_payment",
                                 Len(payments) + 1)
          /\ UNCHANGED <<database_url, in_flight, write_lock, id_seq, server,
                         requests, users, posts, channels,
                         channel_memberships, messages, dev_applications,
                         reports>>
     ELSE \/ create_table_if_not_exists("payments", call)
          \/ \E k \in DOMAIN in_flight :
               /\ in_flight[k] = call
               /\ IF locked THEN insert_is_locked(k)
                  ELSE /\ payments' = insert_payment(user_id, item_id)
                       /\ in_flight' = returned(k)
                       /\ result' = ReturnsId("initiate_simulated_payment",
                                              Len(payments) + 1)
                       /\ UNCHANGED <<database_url, schema, write_lock,
                                      id_seq, server, requests, users, posts,
                                      channels, channel_memberships, messages,
                                      dev_applications, reports>>

\* UPDATE payments SET status = 'completed' WHERE id = ?
set_completed(pid) ==
  [i \in DOMAIN payments |->
     IF i = pid THEN [payments[i] EXCEPT !.status = "completed"]
     ELSE payments[i]]

\* the UPDATE has no condition on status and the method takes no code
complete_simulated_payment(pid) ==
  IF ~table_exists("payments")
  THEN /\ result' = Raises("complete_simulated_payment", no_such_table)
       /\ UNCHANGED <<database_url, schema, in_flight,
                      write_lock, id_seq, server, requests,
                      tables>>
  ELSE IF locked THEN database_is_locked("complete_simulated_payment")
  ELSE /\ payments' = set_completed(pid)
       /\ result' = Returns("complete_simulated_payment", "True")
       /\ UNCHANGED <<database_url, schema, in_flight,
                      write_lock, id_seq, server, requests,
                      users, posts, channels, channel_memberships,
                      messages, dev_applications, reports>>

\* the method takes a user id and an item id, no payment
upgrade_user_badge(user_id, item_id) ==
  IF locked THEN database_is_locked("upgrade_user_badge")
  ELSE /\ users' = set_badge(user_id, badge_for(item_id))
       /\ result' = Returns("upgrade_user_badge", "True")
       /\ UNCHANGED <<database_url, schema, in_flight,
                      write_lock, id_seq, server, requests,
                      posts, channels, channel_memberships,
                      messages, payments, dev_applications, reports>>

----------------------------------------------------------------------------
(* Developer applications *)

\* INSERT INTO dev_applications (user_id, details, cert_url)
insert_dev_application(user_id) ==
  Append(dev_applications,
         [id |-> serial(Len(dev_applications) + 1), user_id |-> user_id,
          status |-> "pending"])

create_dev_application(user_id) ==
  LET call == Call("create_dev_application", user_id, <<>>, NULL)
  IN IF database_url
     THEN /\ schema' = schema \cup {"dev_applications"}
          /\ dev_applications' = insert_dev_application(user_id)
          /\ result' = Returns("create_dev_application", "True")
          /\ UNCHANGED <<database_url, in_flight, write_lock, id_seq, server,
                         requests, users, posts, channels,
                         channel_memberships, messages, payments, reports>>
     ELSE \/ create_table_if_not_exists("dev_applications", call)
          \/ \E k \in DOMAIN in_flight :
               /\ in_flight[k] = call
               /\ IF locked THEN insert_is_locked(k)
                  ELSE /\ dev_applications' = insert_dev_application(user_id)
                       /\ in_flight' = returned(k)
                       /\ result' = Returns("create_dev_application", "True")
                       /\ UNCHANGED <<database_url, schema, write_lock,
                                      id_seq, server, requests, users, posts,
                                      channels, channel_memberships, messages,
                                      payments, reports>>

\* UPDATE dev_applications SET status = 'approved' WHERE id = ?
set_approved(app_id) ==
  [i \in DOMAIN dev_applications |->
     IF sql_eq(dev_applications[i].id, app_id)
     THEN [dev_applications[i] EXCEPT !.status = "approved"]
     ELSE dev_applications[i]]

(* cur.fetchone()[0] raises TypeError when no row has that id; the SQLite  *)
(* text of the badge UPDATE has two placeholders for one parameter and     *)
(* raises after the UPDATE of the application was executed.  Neither       *)
(* UPDATE has a condition on the status.                                   *)
approve_dev_application(app_id) ==
  LET a == row_by_id(dev_applications, app_id)
  IN IF ~table_exists("dev_applications")
     THEN /\ result' = Raises("approve_dev_application", no_such_table)
          /\ UNCHANGED <<database_url, schema, in_flight,
                         write_lock, id_seq, server, requests,
                         tables>>
     ELSE IF a = 0
     THEN /\ result' = Raises("approve_dev_application", "TypeError")
          /\ UNCHANGED <<database_url, schema, in_flight,
                         write_lock, id_seq, server, requests,
                         tables>>
     ELSE IF locked THEN database_is_locked("approve_dev_application")
     ELSE IF ~database_url
     THEN /\ write_lock' = TRUE
          /\ result' = Raises("approve_dev_application", "ProgrammingError")
          /\ UNCHANGED <<database_url, schema, in_flight,
                         id_seq, server, requests, tables>>
     ELSE /\ dev_applications' = set_approved(app_id)
          /\ users' = set_badge(dev_applications[a].user_id, "dev")
          /\ result' = Returns("approve_dev_application", "True")
          /\ UNCHANGED <<database_url, schema, in_flight,
                         write_lock, id_seq, server, requests,
                         posts, channels, channel_memberships,
                         messages, payments, reports>>

----------------------------------------------------------------------------
(* The service *)

(* `python billboard_server.py` (or an import of the module by uvicorn):   *)
(* the module body runs from line 1; line 44 constructs the                *)
(* BillboardManager, whose init_db creates the tables that exist already   *)
(* only if missing; the decorator of line 196 needs the function of line   *)
(* 197, whose annotation MessageCreate is no name of the module, and the   *)
(* def raises NameError.  The process exits: the routes registered so far  *)
(* are lost with it and uvicorn.run is not reached.                        *)
import_billboard_server ==
  /\ server = "not started"
  /\ server' = "NameError"
  /\ UNCHANGED <<database_url, schema, in_flight,
                 write_lock, id_seq, requests, tables, result>>

\* what a client gets for a request: an answer of the service, or nothing
Answer(code, detail) == [code |-> code, detail |-> detail]
ConnectionRefused == Answer(0, "connection refused")

\* a client that has sent nothing
NoRequest ==
  [path |-> "", user_id |-> NULL, post_type |-> "", channel_id |-> NULL,
   media |-> FALSE, payment_id |-> NULL, test_code |-> "", username |-> "",
   email |-> "", answer |-> Answer(0, "")]

\* POST /post
PostRequest(user_id, post_type, channel_id, media) ==
  [NoRequest EXCEPT !.path = "/post", !.user_id = user_id,
                    !.post_type = post_type, !.channel_id = channel_id,
                    !.media = media]

\* POST /simulated-payment/confirm
ConfirmRequest(payment_id, test_code) ==
  [NoRequest EXCEPT !.path = "/simulated-payment/confirm",
                    !.payment_id = payment_id, !.test_code = test_code]

\* POST /register
RegisterRequest(username, email) ==
  [NoRequest EXCEPT !.path = "/register", !.username = username,
                    !.email = email]

\* GET /channel-feed/{channel_id}?user_id=
ChannelFeedRequest(channel_id, user_id) ==
  [NoRequest EXCEPT !.path = "/channel-feed", !.channel_id = channel_id,
                    !.user_id = user_id]

(* Client c sends request r to the service after the attempt to start it:  *)
(* no process listens on the port, the connection is refused and no        *)
(* handler runs.                                                           *)
send(c, r) ==
  /\ server = "NameError"
  /\ requests' = [requests EXCEPT ![c] =
                    [r EXCEPT !.answer = ConnectionRefused]]
  /\ UNCHANGED <<database_url, schema, in_flight,
                 write_lock, id_seq, server, tables, result>>

----------------------------------------------------------------------------
(* The state after BillboardManager(db_path) on a new database *)
Init ==
  /\ database_url \in BOOLEAN
  /\ schema = {}
  /\ in_flight = <<>>
  /\ users = <<>>
  /\ posts = <<>>
  /\ channels = <<>>
  /\ channel_memberships = {}
  /\ messages = <<>>
  /\ payments = <<>>
  /\ dev_applications = <<>>
  /\ reports = <<>>
  /\ id_seq = [users |-> 0, channels |-> 0]
  /\ write_lock = FALSE
  /\ server = "not started"
  /\ requests = [c \in Clients |-> NoRequest]
  /\ result = Returns("__init__", "None")

\* number of rows in the store, the rows of the calls in flight included
RowCount == Len(users) + Len(posts) + Len(channels)
            + Cardinality(channel_memberships) + Len(messages)
            + Len(payments) + Len(dev_applications) + Len(reports)
            + Len(in_flight)

\* the store holds no more than the rows scenario q allows
Within(q) ==
  /\ Len(users) <= q.users
  /\ Len(posts) <= q.posts
  /\ Len(channels) <= q.channels
  /\ Len(messages) <= q.messages
  /\ Len(payments) <= q.payments
  /\ Len(dev_applications) <= q.apps
  /\ Len(reports) <= q.reports
  /\ Len(in_flight) <= MaxInFlight
  /\ id_seq.channels <= Len(channels) + MaxFailed
  /\ id_seq.users <= Len(users) + MaxFailed
  /\ RowCount <= q.rows

(* The calls of BillboardManager with the inputs of scenario q, the store  *)
(* staying within the scenario's quota.                                    *)

\* registration
Registration(q) ==
  /\ \E username \in q.usernames, email \in q.emails, code \in q.codes :
       create_user(username, email, code)
  /\ Within(q)'

\* the other calls on a user account
Accounts(q) ==
  \/ /\ \E email \in q.emails, code \in q.codes \cup {"0000000"} :
          verify_email(email, code)
     /\ Within(q)'
  \/ /\ \E user_id \in q.user_ids, bio \in q.bios :
          update_user_profile(user_id, bio)
     /\ Within(q)'
  \/ /\ \E username \in q.usernames : mute_user(username)
     /\ Within(q)'

\* posts, feeds and reports
Content(q) ==
  \/ /\ \E user_id \in q.user_ids, post_type \in q.post_types,
          channel_id \in q.channel_args, media_url \in q.media_urls :
          create_post(user_id, post_type, channel_id, media_url)
     /\ Within(q)'
  \/ /\ \E limit \in q.limits, after_id \in q.after_ids :
          get_feed(limit, after_id)
     /\ Within(q)'
  \/ /\ \E limit \in q.limits, after_id \in q.after_ids :
          get_news(limit, after_id)
     /\ Within(q)'
  \/ /\ \E post_id \in q.post_ids : delete_post(post_id)
     /\ Within(q)'
  \/ /\ \E post_id \in q.post_ids, user_id \in q.user_ids :
          report_post(post_id, user_id)
     /\ Within(q)'

\* channels and messages
Channels(q) ==
  \/ /\ \E owner_id \in q.user_ids : create_channel(owner_id)
     /\ Within(q)'
  \/ /\ \E user_id \in q.user_ids, channel_id \in q.channel_ids :
          is_channel_member(user_id, channel_id)
     /\ Within(q)'
  \/ /\ \E channel_id \in q.channel_ids, user_id \in q.user_ids :
          add_channel_member(channel_id, user_id)
     /\ Within(q)'
  \/ /\ \E sender_id \in q.user_ids, receiver_id \in q.user_ids :
          send_message(sender_id, receiver_id)
     /\ Within(q)'

\* payments, badges and developer applications
Payments(q) ==
  \/ /\ \E user_id \in q.user_ids, item_id \in q.items :
          initiate_simulated_payment(user_id, item_id)
     /\ Within(q)'
  \/ /\ \E pid \in q.payment_ids : complete_simulated_payment(pid)
     /\ Within(q)'
  \/ /\ \E user_id \in q.user_ids, item_id \in q.items :
          upgrade_user_badge(user_id, item_id)
     /\ Within(q)'
  \/ /\ \E user_id \in q.user_ids : create_dev_application(user_id)
     /\ Within(q)'
  \/ /\ \E app_id \in q.app_ids : approve_dev_application(app_id)
     /\ Within(q)'

\* the start of the service and the requests of its clients
Service(q) ==
  \/ import_billboard_server
  \/ \E c \in q.clients, r \in q.requests : send(c, r)

\* every call, the start of the service and the requests of its clients
Step(q) ==
  \/ Registration(q)
  \/ Accounts(q)
  \/ Content(q)
  \/ Channels(q)
  \/ Payments(q)
  \/ finalise
  \/ Service(q)

(* The base scenario, the user accounts: two usernames and two emails, one *)
(* user id named by the callers.  Its steps are the calls that write the   *)
(* table users.                                                            *)
Scenario ==
  [usernames |-> Usernames, emails |-> Emails, codes |-> {"1000000"},
   post_types |-> {"wall"}, media_urls |-> {NoMedia}, limits |-> {MaxLimit},
   after_ids |-> {0}, items |-> {Gold_Badge}, user_ids |-> {1},
   channel_args |-> {NULL}, bios |-> Bios,
   post_ids |-> {1}, channel_ids |-> {1}, payment_ids |-> {1},
   app_ids |-> {1}, clients |-> {1},
   requests |-> {RegisterRequest("alice", "a@x.com")},
   users |-> MaxUsers, posts |-> MaxPosts, channels |-> MaxChannels,
   messages |-> MaxMessages, payments |-> MaxPayments, apps |-> MaxApps,
   reports |-> MaxReports, rows |-> MaxRows]

Next ==
  \/ Registration(Scenario)
  \/ Accounts(Scenario)
  \/ Payments(Scenario)
  \/ finalise

Spec == Init /\ [][Next]_vars

(* The payment scenario: one registered user and a second user id, every   *)
(* item, a client that confirms a payment; every call and the service.     *)
PaymentScenario ==
  [Scenario EXCEPT !.usernames = {"alice"}, !.emails = {"a@x.com"},
                   !.items = ItemIds, !.user_ids = UserIds,
                   !.payment_ids = PaymentIds, !.app_ids = AppIds,
                   !.requests = {ConfirmRequest(1, code) : code \in TestCodes}]

NextPayments == Step(PaymentScenario)

SpecPayments == Init /\ [][NextPayments]_vars

(* The content scenario: one author, wall, news and channel posts inside   *)
(* and outside a channel, every page of the feeds; its steps are           *)
(* registration and the calls on posts.                                    *)
ContentScenario ==
  [Scenario EXCEPT !.usernames = {"alice"}, !.emails = {"a@x.com"},
                   !.post_types = PostTypes, !.channel_args = {NULL, 0},
                   !.limits = Limits, !.after_ids = AfterIds,
                   !.post_ids = PostIds,
                   !.posts = ContentPosts, !.rows = ContentRows]

NextContent ==
  \/ Registration(ContentScenario)
  \/ Content(ContentScenario)
  \/ finalise

SpecContent == Init /\ [][NextContent]_vars

(* The channel scenario: one registered user and a second user id, posts   *)
(* inside and outside a channel, a client that reads and posts; its steps  *)
(* are registration, the calls on posts and channels, and the service.     *)
ChannelScenario ==
  [Scenario EXCEPT !.usernames = {"alice"}, !.emails = {"a@x.com"},
                   !.user_ids = UserIds, !.channel_ids = ChannelIds,
                   !.channel_args = {NULL} \cup ChannelIds,
                   !.requests = {ChannelFeedRequest(1, 1),
                                 PostRequest(2, "wall", 1, FALSE)},
                   !.rows = ChannelRows]

NextChannels ==
  \/ Registration(ChannelScenario)
  \/ Content(ChannelScenario)
  \/ Channels(ChannelScenario)
  \/ finalise
  \/ Service(ChannelScenario)

SpecChannels == Init /\ [][NextChannels]_vars

(* The posting scenario: one registered user, wall and news posts with and *)
(* without media, a client that posts; its steps are the calls on users,   *)
(* posts and badges, and the service.                                      *)
PostScenario ==
  [Scenario EXCEPT !.usernames = {"alice"}, !.emails = {"a@x.com"},
                   !.post_types = {"wall", "news"},
                   !.media_urls = MediaUrls,
                   !.requests = {PostRequest(1, t, NULL, m) :
                                   t \in {"wall", "news"}, m \in BOOLEAN},
                   !.rows = PostRows]

NextPosts ==
  \/ Registration(PostScenario)
  \/ Accounts(PostScenario)
  \/ Content(PostScenario)
  \/ Payments(PostScenario)
  \/ finalise
  \/ Service(PostScenario)

SpecPosts == Init /\ [][NextPosts]_vars

(* The client scenario: several clients that register and confirm; its     *)
(* steps are registration, the calls on payments and the service.          *)
ClientScenario ==
  [Scenario EXCEPT !.clients = Clients,
                   !.requests = {RegisterRequest("alice", e) : e \in Emails}
                                \cup {ConfirmRequest(1, "0000")},
                   !.rows = ClientRows]

NextClients ==
  \/ Registration(ClientScenario)
  \/ Payments(ClientScenario)
  \/ finalise
  \/ Service(ClientScenario)

SpecClients == Init /\ [][NextClients]_vars

----------------------------------------------------------------------------
(* Properties *)

\* client c sends a request in this step
Sends(c) == requests'[c] # requests[c]

\* client c sends, in this step, a confirmation of payment p with this code
Confirms(c, p, code) ==
  /\ Sends(c)
  /\ requests'[c].path = "/simulated-payment/confirm"
  /\ requests'[c].payment_id = p
  /\ requests'[c].test_code = code

\* client c sends a post request in this step
SendsPost(c) == Sends(c) /\ requests'[c].path = "/post"

\* the answers of the service
Success == Answer(200, "Success")
Forbidden(detail) == Answer(403, detail)
Conflict == Answer(400, "Username or Email already registered.")

\* the deny reasons of a post request
USER_NOT_FOUND == "User not found."
EMAIL_UNVERIFIED == "Email not verified."
MUTED == "Muted."
DEV_ONLY == "Only Developers can transmit to Campus Pulse."
NOT_CHANNEL_OWNER == "Only the Node creator can transmit in this channel."
VERIFIED_REQUIRED == "Multimedia requires Verified status."
ACCESS_DENIED == "Access Denied"

\* the answer denies the request
Denied(answer) == answer.code \in {403, 404}

\* badge_type of every user is the same before and after the step
BadgesUnchanged ==
  /\ Len(users') = Len(users)
  /\ \A i \in DOMAIN users : users'[i].badge_type = users[i].badge_type

\* status of every payment is the same before and after the step
PaymentStatusUnchanged ==
  /\ Len(payments') = Len(payments)
  /\ \A p \in DOMAIN payments : payments'[p].status = payments[p].status

\* the step completes payment p
Completes(p) ==
  /\ p \in DOMAIN payments
  /\ payments[p].status = "pending"
  /\ payments'[p].status = "completed"

\* the tier of an item: the first matching rule in the order Verified,
\* Gold, Dev
TierOf(item_id) ==
  CASE contains(item_id, Verified) -> "verified"
    [] ~contains(item_id, Verified) /\ contains(item_id, Gold) -> "gold"
    [] ~contains(item_id, Verified) /\ ~contains(item_id, Gold)
       /\ contains(item_id, Dev) -> "dev"
    [] OTHER -> "none"

(* C1: a confirmation with the expected code of a payment that is already  *)
(* completed is answered with success, leaves the payment completed and    *)
(* leaves the badge_type of every user as it was before the call: the      *)
(* badge upgrade of a payment is applied at most once.                     *)
C1_ConfirmAppliesBadgeOnce ==
  [][\A c \in Clients, p \in PaymentIds :
       (/\ p \in DOMAIN payments
        /\ payments[p].status = "completed"
        /\ Confirms(c, p, "0000"))
       => /\ requests'[c].answer = Success
          /\ payments'[p].status = "completed"
          /\ BadgesUnchanged]_vars

(* C2: a payment goes from pending to completed only in a step that is a   *)
(* confirmation of that payment carrying the expected code; a badge_type   *)
(* changes only in such a step or in the approval of a developer           *)
(* application; a confirmation with another code is not answered with      *)
(* success and leaves payment status and badges unchanged.                 *)
C2_OnlyConfirmationCompletes ==
  [][/\ \A p \in PaymentIds :
          Completes(p) => \E c \in Clients : Confirms(c, p, "0000")
     /\ ~BadgesUnchanged /\ Len(users') = Len(users)
        => \/ \E c \in Clients, p \in PaymentIds : Confirms(c, p, "0000")
           \/ \E a \in AppIds : approve_dev_application(a)
     /\ \A c \in Clients, p \in PaymentIds, code \in TestCodes \ {"0000"} :
          Confirms(c, p, code)
          => /\ requests'[c].answer # Success
             /\ PaymentStatusUnchanged
             /\ BadgesUnchanged]_vars

\* the step stores a post
StoresPost == Len(posts') > Len(posts)

\* the post a step stores
NewPost == posts'[Len(posts')]

\* author, type and channel of the stored posts do not change, no post is
\* removed
PostsKeepAuthorAndType ==
  \A i \in DOMAIN posts :
    /\ i \in DOMAIN posts'
    /\ posts'[i].user_id = posts[i].user_id
    /\ posts'[i].post_type = posts[i].post_type
    /\ posts'[i].channel_id = posts[i].channel_id

\* user id u is a registered user holding badge b
HasBadge(u, b) ==
  \E i \in DOMAIN users : sql_eq(users[i].id, u) /\ users[i].badge_type = b

\* user id u is a registered, email-verified, unmuted user
MayPost(u) ==
  \E i \in DOMAIN users : /\ sql_eq(users[i].id, u)
                          /\ users[i].is_email_verified = 1
                          /\ users[i].is_muted = 0

\* user id u owns the stored channel with id c
OwnsChannel(u, c) ==
  \E ch \in DOMAIN channels :
    sql_eq(channels[ch].id, c) /\ channels[ch].owner_id = u

\* a stored channel has id c and another owner than user id u
OwnedByAnother(u, c) ==
  \E ch \in DOMAIN channels :
    sql_eq(channels[ch].id, c) /\ channels[ch].owner_id # u

(* C3: a post of type news is stored only by a step whose author holds the *)
(* dev badge at that moment, and the type and author of a stored post      *)
(* never change; a news request by a user without the dev badge is denied  *)
(* and stores nothing, with reason DEV_ONLY when the user exists, is not   *)
(* muted and has a verified email.                                         *)
C3_NewsOnlyByDev ==
  [][/\ StoresPost /\ NewPost.post_type = "news"
        => HasBadge(NewPost.user_id, "dev")
     /\ PostsKeepAuthorAndType
     /\ \A c \in Clients :
          (/\ SendsPost(c)
           /\ requests'[c].post_type = "news"
           /\ ~HasBadge(requests'[c].user_id, "dev"))
          => /\ Denied(requests'[c].answer)
             /\ posts' = posts
             /\ MayPost(requests'[c].user_id)
                => requests'[c].answer = Forbidden(DEV_ONLY)]_vars

(* C4: a post that carries the id of a stored channel is stored only by a  *)
(* step whose author is the owner of that channel, and the author and      *)
(* channel of a stored post never change; a post request that carries the  *)
(* id of a stored channel owned by another user is denied and stores       *)
(* nothing, with reason NOT_CHANNEL_OWNER when no earlier check fails.     *)
C4_ChannelPostsByOwner ==
  [][/\ StoresPost /\ OwnedByAnother(NewPost.user_id, NewPost.channel_id)
        => FALSE
     /\ PostsKeepAuthorAndType
     /\ \A c \in Clients :
          (/\ SendsPost(c)
           /\ OwnedByAnother(requests'[c].user_id, requests'[c].channel_id))
          => /\ Denied(requests'[c].answer)
             /\ posts' = posts
             /\ (/\ MayPost(requests'[c].user_id)
                 /\ requests'[c].post_type # "news")
                => requests'[c].answer = Forbidden(NOT_CHANNEL_OWNER)]_vars

\* the checks of a post request, by name: TRUE when the check fails
CheckFails(check, r) ==
  LET u == get_user_by_id(r.user_id)
  IN CASE check = "exists" -> u = 0
       [] check = "muted" -> u # 0 /\ users[u].is_muted = 1
       [] check = "verified" -> u # 0 /\ users[u].is_email_verified = 0
       [] check = "news" ->
            u # 0 /\ r.post_type = "news" /\ users[u].badge_type # "dev"
       [] check = "channel" -> OwnedByAnother(r.user_id, r.channel_id)
       [] check = "media" ->
            u # 0 /\ r.media /\ users[u].badge_type = "none"

\* the answer to a request that fails the check
ReasonOf(check) ==
  CASE check = "exists" -> Answer(404, USER_NOT_FOUND)
    [] check = "muted" -> Forbidden(MUTED)
    [] check = "verified" -> Forbidden(EMAIL_UNVERIFIED)
    [] check = "news" -> Forbidden(DEV_ONLY)
    [] check = "channel" -> Forbidden(NOT_CHANNEL_OWNER)
    [] check = "media" -> Forbidden(VERIFIED_REQUIRED)

\* the order of the checks
CheckOrder == <<"exists", "muted", "verified", "news", "channel", "media">>

\* the checks that request r fails, by position in the order
Failures(r) == {k \in DOMAIN CheckOrder : CheckFails(CheckOrder[k], r)}

\* the first check that request r fails
FirstFailure(r) ==
  CheckOrder[CHOOSE k \in Failures(r) : \A j \in Failures(r) : k <= j]

(* C5: a post request that fails a permission rule is answered with the    *)
(* reason of the first failing check in the order user exists, muted,      *)
(* email verified, news, channel, media; a muted and email-unverified user *)
(* is denied with MUTED.                                                   *)
C5_ReasonInStatedOrder ==
  [][\A c \in Clients :
       SendsPost(c) /\ Failures(requests'[c]) # {}
       => requests'[c].answer = ReasonOf(FirstFailure(requests'[c]))]_vars

(* C6: a post is stored only by a step whose author is, at that moment, a  *)
(* registered user who is not muted and whose email is verified, and the   *)
(* author of a stored post never changes; a post request by a missing,     *)
(* muted or unverified user is denied and leaves the post store unchanged. *)
C6_PostsOnlyByVerifiedUnmuted ==
  [][/\ StoresPost => MayPost(NewPost.user_id)
     /\ PostsKeepAuthorAndType
     /\ \A c \in Clients :
          SendsPost(c) /\ ~MayPost(requests'[c].user_id)
          => Denied(requests'[c].answer) /\ posts' = posts]_vars

(* C7: mute_user(username) sets is_muted of the user with that username    *)
(* and of no other user, and no step resets is_muted of a muted user.      *)
C7_MuteOneWayByUsername ==
  [][/\ \A n \in Usernames :
          mute_user(n)
          => /\ Len(users') = Len(users)
             /\ \A i \in DOMAIN users :
                  IF users[i].username = n
                  THEN users'[i].is_muted = 1
                  ELSE users'[i].is_muted = users[i].is_muted
     /\ \A i \in DOMAIN users :
          users[i].is_muted = 1
          => i \in DOMAIN users' /\ users'[i].is_muted = 1]_vars

(* C8: a user is created with is_email_verified = 0; it becomes 1 only in  *)
(* a verify_email step carrying the user's email and stored code; a        *)
(* submission whose code matches no stored code of that email returns      *)
(* False and changes no user; once 1 it stays 1.                           *)
C8_VerifiedOnlyByMatchingCode ==
  [][/\ Len(users') > Len(users)
        => users'[Len(users')].is_email_verified = 0
     /\ \A i \in DOMAIN users :
          /\ i \in DOMAIN users'
          /\ users[i].is_email_verified = 0 /\ users'[i].is_email_verified = 1
             => verify_email(users[i].email, users[i].verification_code)
          /\ users[i].is_email_verified = 1
             => users'[i].is_email_verified = 1
     /\ \A e \in Emails, c \in Codes \cup {"0000000"} :
          (/\ verify_email(e, c)
           /\ ~\E i \in DOMAIN users :
                 users[i].email = e /\ users[i].verification_code = c)
          => result' = Returns("verify_email", "False") /\ users' = users]_vars

\* verify_email returned True: one user was verified by a matching code,
\* another one is not verified
C8_Witness ==
  /\ result = Returns("verify_email", "True")
  /\ \E i, j \in DOMAIN users :
       users[i].is_email_verified = 1 /\ users[j].is_email_verified = 0

\* rows is a page of the wall feed for cursor after_id and limit
FeedPage(rows, limit, after_id) ==
  /\ limit >= 0 => Len(rows) <= limit
  /\ \A k \in DOMAIN rows :
       /\ rows[k].id > after_id
       /\ rows[k].is_deleted = 0
       /\ rows[k].post_type # "news"
       /\ \E i \in DOMAIN posts :
            /\ posts[i].id = rows[k].id
            /\ posts[i].is_deleted = 0
            /\ posts[i].post_type # "news"
  /\ \A j, k \in DOMAIN rows :
       j < k => rows[j].created_at >= rows[k].created_at /\ rows[j].id # rows[k].id

NoDeletedRow ==
  \A k \in DOMAIN result'.rows, i \in DOMAIN posts :
    posts[i].id = result'.rows[k].id => posts[i].is_deleted = 0

(* C10: delete_post sets is_deleted of that post and changes nothing else  *)
(* in the post store, the post staying in storage; no step removes a post  *)
(* or resets is_deleted; no get_feed or get_news returns a deleted post.   *)
C10_SoftDelete ==
  [][/\ \A p \in PostIds :
          delete_post(p) /\ ~result'.raised
          => /\ Len(posts') = Len(posts)
             /\ \A i \in DOMAIN posts :
                  posts'[i] = IF sql_eq(posts[i].id, p)
                              THEN [posts[i] EXCEPT !.is_deleted = 1]
                              ELSE posts[i]
     /\ \A i \in DOMAIN posts :
          /\ i \in DOMAIN posts'
          /\ posts[i].is_deleted = 1 => posts'[i].is_deleted = 1
     /\ result'.call \in {"get_feed", "get_news"} => NoDeletedRow]_vars

\* a post is deleted and get_feed returned the other post
C10_Witness ==
  /\ result.call = "get_feed"
  /\ Len(result.rows) = 1
  /\ \E i \in DOMAIN posts : posts[i].is_deleted = 1

(* C11: in every state, for every stored channel the pair of its owner and *)
(* its id is a row of channel_memberships: the owner is in the membership  *)
(* set of the channel.                                                     *)
C11_OwnerIsMember ==
  \A c \in DOMAIN channels : member(channels[c].owner_id, channels[c].id)

(* C12: a request to read a channel's feed is allowed (answered 200) when  *)
(* the requesting user is a member of the channel or its owner, and is     *)
(* denied with Access Denied in every other case.                          *)
C12_ReadAllowedForMembersAndOwner ==
  [][\A c \in Clients :
       Sends(c) /\ requests'[c].path = "/channel-feed"
       => IF \/ member(requests'[c].user_id, requests'[c].channel_id)
             \/ OwnsChannel(requests'[c].user_id, requests'[c].channel_id)
          THEN requests'[c].answer.code = 200
          ELSE requests'[c].answer = Forbidden(ACCESS_DENIED)]_vars

\* the stored developer application with id a is in this status
AppStatus(a, status) ==
  \E i \in DOMAIN dev_applications :
    sql_eq(dev_applications[i].id, a) /\ dev_applications[i].status = status

\* the users after the badge of the applicant of application a is set to dev
ApplicantIsDev(a) ==
  [i \in DOMAIN users |->
     IF \E k \in DOMAIN dev_applications :
          /\ sql_eq(dev_applications[k].id, a)
          /\ sql_eq(users[i].id, dev_applications[k].user_id)
     THEN [users[i] EXCEPT !.badge_type = "dev"]
     ELSE users[i]]

\* the applications after application a is set to approved
AppApproved(a) ==
  [i \in DOMAIN dev_applications |->
     IF sql_eq(dev_applications[i].id, a)
     THEN [dev_applications[i] EXCEPT !.status = "approved"]
     ELSE dev_applications[i]]

(* C13: approving a pending developer application sets that application to *)
(* approved and the applicant's badge_type to dev and changes nothing      *)
(* else; approving an approved application again returns without an        *)
(* exception and leaves every application and every user unchanged; no     *)
(* step moves an application from approved back to pending.                *)
C13_ApprovalIdempotent ==
  [][/\ \A a \in AppIds :
          approve_dev_application(a)
          => /\ AppStatus(a, "pending")
                => /\ ~result'.raised
                   /\ dev_applications' = AppApproved(a)
                   /\ users' = ApplicantIsDev(a)
                   /\ UNCHANGED <<posts, channels, channel_memberships,
                                  messages, payments, reports>>
             /\ AppStatus(a, "approved")
                => /\ ~result'.raised
                   /\ UNCHANGED tables
     /\ \A i \in DOMAIN dev_applications :
          dev_applications[i].status = "approved"
          => /\ i \in DOMAIN dev_applications'
             /\ dev_applications'[i].status = "approved"]_vars

\* the badge_type of the users with id u is, after the step, the tier of
\* the item of payment p
UpgradedOnce(p) ==
  \A i \in DOMAIN users :
    sql_eq(users[i].id, payments[p].user_id)
    => users'[i].badge_type = TierOf(payments[p].item_id)

UniqueUsers ==
  \A i, j \in DOMAIN users :
    i # j => /\ users[i].username # users[j].username
             /\ users[i].email # users[j].email

\* the username or the email is that of a registered user
Taken(username, email) ==
  get_user_by_username(username) # 0 \/ get_user_by_email(email) # 0

(* C15: no two users share a username or an email, and a registration      *)
(* whose username or email is taken is answered with Conflict and creates  *)
(* no user.                                                                *)
C15_UniqueAndConflict ==
  [][/\ UniqueUsers'
     /\ \A c \in Clients :
          (/\ Sends(c)
           /\ requests'[c].path = "/register"
           /\ Taken(requests'[c].username, requests'[c].email))
          => requests'[c].answer = Conflict /\ users' = users]_vars

\* media of the stored posts does not change, no post is removed
PostsKeepMedia ==
  \A i \in DOMAIN posts :
    /\ i \in DOMAIN posts'
    /\ posts'[i].user_id = posts[i].user_id
    /\ posts'[i].media_url = posts[i].media_url

\* user id u is a registered user holding a badge other than none
HasSomeBadge(u) ==
  \E i \in DOMAIN users : sql_eq(users[i].id, u) /\ users[i].badge_type # "none"

(* C16: a post with media is stored only by a step whose author holds a    *)
(* badge other than none at that moment, and the media and author of a     *)
(* stored post never change; a post request with media by a user holding   *)
(* no badge is denied and stores nothing, with reason VERIFIED_REQUIRED    *)
(* when no earlier check fails.                                            *)
C16_MediaOnlyByBadgeHolders ==
  [][/\ StoresPost /\ NewPost.media_url # NoMedia
        => HasSomeBadge(NewPost.user_id)
     /\ PostsKeepMedia
     /\ \A c \in Clients :
          (/\ SendsPost(c)
           /\ requests'[c].media
           /\ ~HasSomeBadge(requests'[c].user_id))
          => /\ Denied(requests'[c].answer)
             /\ posts' = posts
             /\ FirstFailure(requests'[c]) = "media"
                => requests'[c].answer = Forbidden(VERIFIED_REQUIRED)]_vars

PaymentStepFor(i) ==
  \E p \in DOMAIN payments :
    Completes(p) /\ sql_eq(users[i].id, payments[p].user_id)

\* the step approves a developer application of the user in row i
ApprovalStepFor(i) ==
  \E a \in AppIds :
    /\ approve_dev_application(a)
    /\ \E k \in DOMAIN dev_applications :
         /\ sql_eq(dev_applications[k].id, a)
         /\ sql_eq(users[i].id, dev_applications[k].user_id)

(* C18: a user is created with badge_type none; the badge_type of a user   *)
(* changes only in a step that completes a payment of that user or         *)
(* approves a developer application of that user; no user is removed.      *)
C18_BadgeChangesOnlyByPaymentOrApproval ==
  [][/\ Len(users') > Len(users) => users'[Len(users')].badge_type = "none"
     /\ \A i \in DOMAIN users :
          /\ i \in DOMAIN users'
          /\ users'[i].badge_type # users[i].badge_type
             => PaymentStepFor(i) \/ ApprovalStepFor(i)]_vars

(* C19: in a step that completes a payment, the badge_type of the owning   *)
(* user becomes the tier of the payment's item, by the first matching rule *)
(* in the order Verified, Gold, Dev, else none, whatever the badge was.    *)
C19_BadgeIsTierOfItem ==
  [][\A p \in PaymentIds : Completes(p) => UpgradedOnce(p)]_vars

====
